---- MODULE Spec2Model ----
(***************************************************************************)
(* TechStore API (src/main.py): the product table, the six request         *)
(* handlers and the per-request connection scope they run in.              *)
(*                                                                         *)
(* Text the code inspects character by character (the sort token) is a     *)
(* tuple of one-character strings.  Prices are integers counting           *)
(* thousandths of the currency unit, so 9999 is 9.999 and 10000 is 10.00.  *)
(* Every request runs in its own connection and transaction (psycopg2,     *)
(* READ COMMITTED): a statement sees what was committed before it.  A      *)
(* write statement and the commit that follows it in the handler are one   *)
(* step, which loses no behaviour: a concurrent reader sees the old row    *)
(* until the commit, and a concurrent writer of the same row waits for it. *)
(***************************************************************************)
EXTENDS Integers, Sequences, FiniteSets, TLC

\* ------------------------------------------------------------------ bounds
NumClients == 2
MaxRequests == 2

Clients == 1..NumClients

\* ------------------------------------------------------- program constants
MaxNameLen == 255
MaxCategoryLen == 100
MaxLimit == 1000
HTTP_200 == 200
HTTP_201 == 201
HTTP_400 == 400
HTTP_404 == 404
HTTP_422 == 422
HTTP_500 == 500
HTTP_503 == 503

None == "None"

\* ------------------------------------------------------------------- text
UpperAlpha == <<"A","B","C","D","E","F","G","H","I","J","K","L","M",
                "N","O","P","Q","R","S","T","U","V","W","X","Y","Z">>
LowerAlpha == <<"a","b","c","d","e","f","g","h","i","j","k","l","m",
                "n","o","p","q","r","s","t","u","v","w","x","y","z">>

\* str.lower() on one character
LowerChar(ch) ==
    IF \E i \in 1..Len(UpperAlpha) : UpperAlpha[i] = ch
    THEN LowerAlpha[CHOOSE i \in 1..Len(UpperAlpha) : UpperAlpha[i] = ch]
    ELSE ch

\* str.lower()
Lower(s) == [i \in 1..Len(s) |-> LowerChar(s[i])]

\* str.replace(old, ''): every non-overlapping occurrence, left to right
RECURSIVE Remove(_, _)
Remove(s, old) ==
    IF Len(s) < Len(old) THEN s
    ELSE IF SubSeq(s, 1, Len(old)) = old
         THEN Remove(SubSeq(s, Len(old) + 1, Len(s)), old)
         ELSE <<Head(s)>> \o Remove(Tail(s), old)

\* str.endswith(suffix)
EndsWith(s, suffix) ==
    /\ Len(s) >= Len(suffix)
    /\ SubSeq(s, Len(s) - Len(suffix) + 1, Len(s)) = suffix

sId        == <<"i","d">>
sName      == <<"n","a","m","e">>
sPrice     == <<"p","r","i","c","e">>
sCategory  == <<"c","a","t","e","g","o","r","y">>
sCreatedAt == <<"c","r","e","a","t","e","d","_","a","t">>
sCreated   == <<"c","r","e","a","t","e","d">>
sDescSuffix == <<"_","d","e","s","c">>
sAscSuffix  == <<"_","a","s","c">>
sASC  == <<" ","A","S","C">>
sDESC == <<" ","D","E","S","C">>

ALLOWED_SORT_FIELDS == {sId, sName, sPrice, sCategory, sCreatedAt}

\* The field validate_sort_field looks up in the allow-list
SortFieldOf(sort_field) == Remove(Remove(Lower(sort_field), sDescSuffix), sAscSuffix)

\* validate_sort_field without the allow-list test: the caller's text goes
\* into the clause
validate_sort_field_unchecked(sort_field) ==
    LET field == SortFieldOf(sort_field) IN
    IF EndsWith(sort_field, sDescSuffix)
    THEN [ok |-> TRUE, clause |-> field \o sDESC]
    ELSE [ok |-> TRUE, clause |-> field \o sASC]

\* validate_sort_field: [ok |-> FALSE] is the HTTPException(400) it raises,
\* otherwise clause is the text interpolated after ORDER BY.
validate_sort_field(sort_field) ==
    LET field == SortFieldOf(sort_field) IN
    IF field \notin ALLOWED_SORT_FIELDS
    THEN [ok |-> FALSE, clause |-> <<>>]
    ELSE IF EndsWith(sort_field, sDescSuffix)
         THEN [ok |-> TRUE, clause |-> field \o sDESC]
         ELSE [ok |-> TRUE, clause |-> field \o sASC]

\* sort_mapping of get_sorted_products
sort_mapping ==
    (sName :> sName \o sASC) @@
    (sName \o sDescSuffix :> sName \o sDESC) @@
    (sPrice :> sPrice \o sASC) @@
    (sPrice \o sDescSuffix :> sPrice \o sDESC) @@
    (sCategory :> sCategory \o sASC) @@
    (sCategory \o sDescSuffix :> sCategory \o sDESC) @@
    (sId :> sId \o sASC) @@
    (sId \o sDescSuffix :> sId \o sDESC) @@
    (sCreated :> sCreatedAt \o sASC) @@
    (sCreated \o sDescSuffix :> sCreatedAt \o sDESC)

\* ----------------------------------------------------------------- payload
\* round(v, 2) on a price given in thousandths; a result in thousandths.
\* A last digit of 5 is decided by the binary value of the float: the branch
\* below is the even hundredth an exactly representable half (0.125) goes to,
\* and the prices the requests carry (ProductInputs) have no such digit.
Round2(v) ==
    LET q == v \div 10
        r == v % 10
    IN IF r < 5 THEN 10 * q
       ELSE IF r > 5 THEN 10 * (q + 1)
       ELSE IF q % 2 = 0 THEN 10 * q ELSE 10 * (q + 1)

\* ProductBase: the Field constraints, which pydantic checks first
FieldsValid(p) ==
    /\ Len(p.name) >= 1 /\ Len(p.name) <= MaxNameLen
    /\ p.price > 0
    /\ Len(p.category) >= 1 /\ Len(p.category) <= MaxCategoryLen

\* ProductBase.validate_price, which runs on a value that passed gt=0
validate_price(v) ==
    IF v <= 0 THEN [ok |-> FALSE, value |-> v]
    ELSE [ok |-> TRUE, value |-> Round2(v)]

\* A request body is accepted when every field passes
BodyValid(p) == FieldsValid(p) /\ validate_price(p.price).ok

\* The ProductCreate the handler receives for an accepted body
Parsed(p) == [p EXCEPT !.price = validate_price(p.price).value]

\* response_model=Product: the row a handler returns is validated as a Product,
\* which inherits the Field constraints of ProductBase
ResponseValid(rows) == \A i \in 1..Len(rows) : FieldsValid(rows[i])

\* ------------------------------------------------------- connection scope
NoExc == [type |-> "none", status_code |-> 0]
HTTPException(code) == [type |-> "HTTPException", status_code |-> code]
OperationalError == [type |-> "OperationalError", status_code |-> 0]
OtherError(t) == [type |-> t, status_code |-> 0]

\* get_db_connection: the exception that leaves the scope when exc is raised
\* inside it, by psycopg2.connect or thrown in at the yield
get_db_connection(exc) ==
    IF exc.type = "none" THEN NoExc
    ELSE IF exc.type = "OperationalError" THEN HTTPException(HTTP_503)
    ELSE HTTPException(HTTP_500)

\* The except clauses every handler ends with
HandlerExcept(exc) ==
    IF exc.type \in {"none", "HTTPException"} THEN exc
    ELSE HTTPException(HTTP_500)

\* status_code of the route decorator
SuccessStatus(op) == IF op = "create_product" THEN HTTP_201 ELSE HTTP_200

\* ------------------------------------------------------------------ inputs
NoProduct == [name |-> "", price |-> 0, category |-> "", description |-> None]

Fixtures ==
    << [id |-> 1, name |-> "a", price |-> 10000, category |-> "x",
        description |-> None, created_at |-> 1, xmin |-> 1],
       [id |-> 2, name |-> "b", price |-> 2500, category |-> "y",
        description |-> "d", created_at |-> 2, xmin |-> 2],
       [id |-> 3, name |-> "c", price |-> 10000, category |-> "x",
        description |-> None, created_at |-> 3, xmin |-> 3] >>

ProductInputs ==
    { [name |-> "a", price |-> 9999, category |-> "x", description |-> None],
      [name |-> "d", price |-> 4,    category |-> "y", description |-> "d"],
      [name |-> "b", price |-> 2500, category |-> "y", description |-> None],
      [name |-> "e", price |-> 0,    category |-> "x", description |-> None] }

IdInputs == {0, 1, 2}

\* ------------------------------------------------------------------- state
VARIABLES
    products,   \* the committed rows of table products
    id_seq,     \* the next value of the id sequence
    clock,      \* transactions begun so far: a transaction's id and timestamp
    started,    \* requests accepted so far
    req         \* per client, the request in progress or answered
                \* (sent: the body as the caller sent it; product: the
                \* ProductCreate the handler got; found: the last fetch;
                \* old: the row as the write statement found it;
                \* raised: the status of the HTTPException the handler raised;
                \* status, body: the answer the caller receives)

vars == <<products, id_seq, clock, started, req>>

Idle ==
    [op |-> "idle", pc |-> "idle", product_id |-> 0, sent |-> NoProduct,
     product |-> NoProduct,
     sort |-> <<>>, category |-> None, skip |-> 0, limit |-> 0,
     txid |-> 0, fault |-> "none", found |-> <<>>, old |-> <<>>, raised |-> 0,
     status |-> 0, body |-> <<>>, order_by |-> <<>>, statements |-> 0,
     commits |-> 0, rollbacks |-> 0, opened |-> 0, closed |-> 0]

\* The table after the first n fixtures were created, and no request yet
InitWith(n) ==
    /\ products = {Fixtures[i] : i \in 1..n}
    /\ id_seq = n + 1
    /\ clock = n
    /\ started = 0
    /\ req = [c \in Clients |-> Idle]

Init == \E n \in 0..Len(Fixtures) : InitWith(n)

InitQuery == InitWith(Len(Fixtures))

\* A request is taken by the first free worker
Free(c) ==
    /\ req[c].op = "idle"
    /\ \A d \in Clients : d < c => req[d].op # "idle"
    /\ started < MaxRequests

Arrive(c, r) ==
    /\ started' = started + 1
    /\ clock' = clock + 1
    /\ req' = [req EXCEPT ![c] = r]

\* The request as the handler finds it: connection open, transaction begun
Opened(op, product_id, product) ==
    [Idle EXCEPT !.op = op, !.pc = "run", !.product_id = product_id,
                 !.sent = product, !.product = product,
                 !.txid = clock + 1, !.opened = 1]

\* get_db (lines 85-118) for a request to any route: psycopg2.connect raises
\* OperationalError, the dependency answers 503 before the parameters are
\* looked at, and no handler runs
get_db_unavailable(c) ==
    /\ Free(c)
    /\ UNCHANGED <<products, id_seq, clock>>
    /\ started' = started + 1
    /\ req' = [req EXCEPT ![c] =
          [Idle EXCEPT !.op = "any", !.pc = "done", !.fault = "connect",
                       !.status = get_db_connection(OperationalError).status_code]]

\* The body or a query parameter fails validation: the framework answers 422
\* after the dependency scope is left, and the handler never runs
Unprocessable(r) ==
    [r EXCEPT !.pc = "done", !.status = HTTP_422, !.closed = @ + 1]

\* The scope without its finally clause: the connection is closed only when
\* nothing is raised inside the scope
Answer_without_finally(r, exc, rows) ==
    LET raised == HandlerExcept(exc)
        thrown == IF raised.type = "none" /\ ~ResponseValid(rows)
                  THEN OtherError("ResponseValidationError") ELSE raised
        left   == get_db_connection(thrown)
    IN [r EXCEPT !.pc = "done",
                 !.raised = raised.status_code,
                 !.status = IF left.type = "none" THEN SuccessStatus(r.op)
                            ELSE left.status_code,
                 !.body = IF left.type = "none" THEN rows ELSE <<>>,
                 !.closed = IF thrown.type = "none" THEN @ + 1 ELSE @]

\* The handler ends by raising exc (NoExc: it returns rows).  The returned
\* rows are validated against the response model inside the scope, and what
\* is raised is thrown into get_db_connection at its yield; its finally
\* clause closes the connection.
Answer(r, exc, rows) ==
    LET raised == HandlerExcept(exc)
        thrown == IF raised.type = "none" /\ ~ResponseValid(rows)
                  THEN OtherError("ResponseValidationError") ELSE raised
        left   == get_db_connection(thrown)
    IN [r EXCEPT !.pc = "done",
                 !.raised = raised.status_code,
                 !.status = IF left.type = "none" THEN SuccessStatus(r.op)
                            ELSE left.status_code,
                 !.body = IF left.type = "none" THEN rows ELSE <<>>,
                 !.closed = @ + 1]

\* A statement fails in the store: the handler's except Exception rolls back
\* where the handler has one and raises HTTPException(500).  The failing
\* statement is the write of a handler that has one, otherwise its only one.
StoreFailed(r, rollback) ==
    Answer([r EXCEPT !.fault = "store", !.statements = @ + 1,
                     !.rollbacks = @ + (IF rollback THEN 1 ELSE 0)],
           OtherError("psycopg2.Error"), <<>>)

Executed(r) == [r EXCEPT !.statements = @ + 1]

\* SELECT ... WHERE id = %s
RowsById(product_id) == {row \in products : row.id = product_id}

\* SELECT id FROM products WHERE name = %s
RowsByName(name) == {row \in products : row.name = name}

\* The rows of a set that holds at most one, as a sequence
SetToSeq(rows) == IF rows = {} THEN <<>> ELSE <<CHOOSE row \in rows : TRUE>>

\* cursor.fetchone(): <<row>> or <<>> for None
FetchOne(rows) == IF rows = {} THEN {<<>>} ELSE {<<row>> : row \in rows}

\* ------------------------------------------------------------ create_product
\* POST /products/ up to the duplicate check (lines 252-263)
create_product(c, product) ==
    /\ Free(c)
    /\ products' = products
    /\ id_seq' = id_seq
    /\ LET r == Opened("create_product", 0, product) IN
       Arrive(c,
          IF ~BodyValid(product) THEN Unprocessable(r)
          ELSE LET h == [r EXCEPT !.product = Parsed(product)] IN
               IF RowsByName(h.product.name) # {}
               THEN Answer(Executed(h), HTTPException(HTTP_400), <<>>)
               ELSE [Executed(h) EXCEPT !.pc = "insert"])

\* INSERT ... RETURNING, commit, return (lines 265-281)
create_product_insert(c) ==
    /\ req[c].op = "create_product" /\ req[c].pc = "insert"
    /\ UNCHANGED <<clock, started>>
    /\ \E fault \in {"none", "store"} :
         LET r == req[c]
             new_product ==
                 [id |-> id_seq, name |-> r.product.name,
                  price |-> r.product.price, category |-> r.product.category,
                  description |-> r.product.description,
                  created_at |-> r.txid, xmin |-> r.txid]
         IN IF fault = "store"
            THEN /\ req' = [req EXCEPT ![c] = StoreFailed(r, TRUE)]
                 /\ UNCHANGED <<products, id_seq>>
            ELSE /\ products' = products \cup {new_product}
                 /\ id_seq' = id_seq + 1
                 /\ req' = [req EXCEPT ![c] =
                        Answer([Executed(r) EXCEPT !.commits = @ + 1,
                                                   !.found = <<new_product>>],
                               NoExc, <<new_product>>)]

\* --------------------------------------------------------------- get_product
\* GET /products/{product_id} (lines 309-338)
get_product(c, product_id) ==
    /\ Free(c)
    /\ UNCHANGED <<products, id_seq>>
    /\ \E fault \in {"none", "store"} :
         LET r == Opened("get_product", product_id, NoProduct) IN
         IF product_id < 1
         THEN Arrive(c, Answer(r, HTTPException(HTTP_400), <<>>))
         ELSE IF fault = "store" THEN Arrive(c, StoreFailed(r, FALSE))
         ELSE \E product \in FetchOne(RowsById(product_id)) :
                Arrive(c,
                   IF product = <<>>
                   THEN Answer(Executed(r), HTTPException(HTTP_404), <<>>)
                   ELSE Answer([Executed(r) EXCEPT !.found = product],
                               NoExc, product))

\* ------------------------------------------------------------ update_product
\* PUT /products/{product_id} up to the existence check (lines 362-374)
update_product(c, product_id, product) ==
    /\ Free(c)
    /\ UNCHANGED <<products, id_seq>>
    /\ LET r == Opened("update_product", product_id, product) IN
       Arrive(c,
          IF ~BodyValid(product) THEN Unprocessable(r)
          ELSE LET h == [r EXCEPT !.product = Parsed(product)] IN
               IF product_id < 1
               THEN Answer(h, HTTPException(HTTP_400), <<>>)
               ELSE IF RowsById(product_id) = {}
                    THEN Answer(Executed(h), HTTPException(HTTP_404), <<>>)
                    ELSE [Executed(h) EXCEPT !.pc = "dupcheck"])

\* the duplicate check, which leaves out the row itself (lines 376-385)
update_product_dupcheck(c) ==
    /\ req[c].op = "update_product" /\ req[c].pc = "dupcheck"
    /\ UNCHANGED <<products, id_seq, clock, started>>
    /\ LET r == req[c] IN
       req' = [req EXCEPT ![c] =
          IF \E row \in RowsByName(r.product.name) : row.id # r.product_id
          THEN Answer(Executed(r), HTTPException(HTTP_400), <<>>)
          ELSE [Executed(r) EXCEPT !.pc = "update"]]

\* An UPDATE that also sets created_at to the time of the update
Updated_with_created_at(row, product, txid) ==
    [row EXCEPT !.name = product.name, !.price = product.price,
                !.category = product.category,
                !.description = product.description,
                !.created_at = txid, !.xmin = txid]

\* The row UPDATE ... SET name, price, category, description writes
Updated(row, product, txid) ==
    [row EXCEPT !.name = product.name, !.price = product.price,
                !.category = product.category,
                !.description = product.description, !.xmin = txid]

\* UPDATE ... RETURNING, commit, return (lines 387-405).  With the row gone
\* fetchone() is None, the commit still runs, and updated_product['name']
\* raises TypeError, which the handler turns into 500 after a rollback.
update_product_write(c) ==
    /\ req[c].op = "update_product" /\ req[c].pc = "update"
    /\ UNCHANGED <<id_seq, clock, started>>
    /\ \E fault \in {"none", "store"} :
         LET r == req[c]
             hit == RowsById(r.product_id)
         IN IF fault = "store"
            THEN /\ req' = [req EXCEPT ![c] = StoreFailed(r, TRUE)]
                 /\ UNCHANGED products
            ELSE /\ products' = (products \ hit) \cup
                                {Updated(row, r.product, r.txid) : row \in hit}
                 /\ \E updated_product \in
                        FetchOne({Updated(row, r.product, r.txid) : row \in hit}) :
                      req' = [req EXCEPT ![c] =
                         LET e == [Executed(r) EXCEPT !.commits = @ + 1,
                                                      !.found = updated_product,
                                                      !.old = SetToSeq(hit)]
                         IN IF updated_product = <<>>
                            THEN Answer([e EXCEPT !.rollbacks = @ + 1],
                                        OtherError("TypeError"), <<>>)
                            ELSE Answer(e, NoExc, updated_product)]

\* ------------------------------------------------------------ delete_product
\* DELETE /products/{product_id} up to the existence check (lines 432-446)
delete_product(c, product_id) ==
    /\ Free(c)
    /\ UNCHANGED <<products, id_seq>>
    /\ LET r == Opened("delete_product", product_id, NoProduct) IN
         IF product_id < 1
         THEN Arrive(c, Answer(r, HTTPException(HTTP_400), <<>>))
         ELSE \E product \in FetchOne(RowsById(product_id)) :
                Arrive(c,
                   IF product = <<>>
                   THEN Answer(Executed(r), HTTPException(HTTP_404), <<>>)
                   ELSE [Executed(r) EXCEPT !.pc = "delete", !.found = product])

\* DELETE, commit, return the message (lines 448-453)
delete_product_write(c) ==
    /\ req[c].op = "delete_product" /\ req[c].pc = "delete"
    /\ UNCHANGED <<id_seq, clock, started>>
    /\ \E fault \in {"none", "store"} :
         LET r == req[c] IN
         IF fault = "store"
         THEN /\ req' = [req EXCEPT ![c] = StoreFailed(r, TRUE)]
              /\ UNCHANGED products
         ELSE /\ products' = products \ RowsById(r.product_id)
              /\ req' = [req EXCEPT ![c] =
                     Answer([Executed(r) EXCEPT !.commits = @ + 1,
                                                !.old = SetToSeq(RowsById(r.product_id))],
                            NoExc, <<>>)]

\* ------------------------------------------------------------------- store
\* The order of the store's text collation on the strings of the model
Collation == <<"a", "b", "c", "d", "e", "x", "y", "z">>
Rank(str) == CHOOSE i \in 1..Len(Collation) : Collation[i] = str

\* The columns of table products, as the SELECT lists name them
sDescription == <<"d","e","s","c","r","i","p","t","i","o","n">>
Columns == {sId, sName, sPrice, sCategory, sDescription, sCreatedAt}

\* The store resolves an ORDER BY clause that names one column and a
\* direction; on any other text it raises an error
WellFormed(clause) ==
    \E col \in Columns : clause \in {col \o sASC, col \o sDESC}
OrderColumn(clause) ==
    CHOOSE col \in Columns : clause \in {col \o sASC, col \o sDESC}
OrderDescending(clause) == EndsWith(clause, sDESC)

\* NULL sorts after every value
SortKey(row, col) ==
    CASE col = sId          -> row.id
      [] col = sName        -> Rank(row.name)
      [] col = sPrice       -> row.price
      [] col = sCategory    -> Rank(row.category)
      [] col = sDescription -> IF row.description = None THEN Len(Collation) + 1
                               ELSE Rank(row.description)
      [] col = sCreatedAt   -> row.created_at

\* row a may come before row b under the clause
MayPrecede(a, b, clause) ==
    IF OrderDescending(clause)
    THEN SortKey(a, OrderColumn(clause)) >= SortKey(b, OrderColumn(clause))
    ELSE SortKey(a, OrderColumn(clause)) <= SortKey(b, OrderColumn(clause))

\* ORDER BY: every order of the rows the store may return; rows that tie on
\* the column come in any order
RECURSIVE OrderBy(_, _)
OrderBy(rows, clause) ==
    IF rows = {} THEN {<<>>}
    ELSE UNION { {<<first>> \o rest : rest \in OrderBy(rows \ {first}, clause)} :
                 first \in {a \in rows : \A b \in rows : MayPrecede(a, b, clause)} }

\* LIMIT %s OFFSET %s
LimitOffset(rows, limit, offset) ==
    SubSeq(rows, offset + 1, IF offset + limit < Len(rows) THEN offset + limit ELSE Len(rows))

\* The filter added whenever a category is given, the empty string included
Filtered_unless_none(category) ==
    IF category # None
    THEN {row \in products : row.category = category}
    ELSE products

\* WHERE category = %s, added when the handler's "if category:" holds
Filtered(category) ==
    IF category # None /\ category # ""
    THEN {row \in products : row.category = category}
    ELSE products

\* -------------------------------------------------------------- get_products
\* Query(ge=0) of skip, Query(ge=1, le=1000) of limit
PageValid(skip, limit) == skip >= 0 /\ limit >= 1 /\ limit <= MaxLimit

\* GET /products/ (lines 191-224)
get_products(c, sort_by, category, skip, limit) ==
    /\ Free(c)
    /\ UNCHANGED <<products, id_seq>>
    /\ \E fault \in {"none", "store"} :
         LET r == [Opened("get_products", 0, NoProduct) EXCEPT
                      !.sort = sort_by, !.category = category,
                      !.skip = skip, !.limit = limit]
             safe_sort == validate_sort_field(sort_by)
             q == [r EXCEPT !.order_by = safe_sort.clause]
         IN IF ~PageValid(skip, limit) THEN Arrive(c, Unprocessable(r))
            ELSE IF ~safe_sort.ok
                 THEN Arrive(c, Answer(r, HTTPException(HTTP_400), <<>>))
            ELSE IF fault = "store" \/ ~WellFormed(safe_sort.clause)
                 THEN Arrive(c, StoreFailed(q, FALSE))
            ELSE \E rows \in OrderBy(Filtered(category), safe_sort.clause) :
                   LET page == LimitOffset(rows, limit, skip) IN
                   Arrive(c, Answer([Executed(q) EXCEPT !.found = page], NoExc, page))

\* ------------------------------------------------------- get_sorted_products
\* GET /products/sort/{sort_type} (lines 492-537)
get_sorted_products(c, sort_type, category) ==
    /\ Free(c)
    /\ UNCHANGED <<products, id_seq>>
    /\ \E fault \in {"none", "store"} :
         LET r == [Opened("get_sorted_products", 0, NoProduct) EXCEPT
                      !.sort = sort_type, !.category = category]
         IN IF sort_type \notin DOMAIN sort_mapping
            THEN Arrive(c, Answer(r, HTTPException(HTTP_400), <<>>))
            ELSE LET sort_expression == sort_mapping[sort_type]
                     q == [r EXCEPT !.order_by = sort_expression]
                 IN IF fault = "store" \/ ~WellFormed(sort_expression)
                    THEN Arrive(c, StoreFailed(q, FALSE))
                    ELSE \E rows \in OrderBy(Filtered(category), sort_expression) :
                           Arrive(c, Answer([Executed(q) EXCEPT !.found = rows],
                                            NoExc, rows))

\* --------------------------------------------------------------- query inputs
SortInputs ==
    { sId, sPrice \o sDescSuffix, sName \o sAscSuffix, sCategory,
      sCreatedAt \o sDescSuffix,
      <<"I","D","_","D","E","S","C">>,
      <<"p","r">> \o sDescSuffix \o <<"i","c","e">>,
      sId \o sAscSuffix \o sDescSuffix,
      sId \o <<";","d","r","o","p">>,
      sCreated,
      <<"i","d","_","d">> \o sAscSuffix \o <<"e","s","c">> }

SortTypeInputs ==
    DOMAIN sort_mapping \cup
    { sCreatedAt, <<"N","A","M","E">>, sPrice \o sAscSuffix,
      sId \o <<";","d","r","o","p">> }

CategoryInputs == {"", "x"}

PageInputs == {<<1, 1>>, <<1, 2>>}

BadPageInputs == {<<0, 0>>, <<0 - 1, 1>>, <<0, 1001>>}

ListInputs ==
    { [sort_by |-> t, category |-> None, skip |-> 0, limit |-> 100] : t \in SortInputs }
    \cup
    { [sort_by |-> sPrice \o sDescSuffix, category |-> k, skip |-> pg[1], limit |-> pg[2]] :
        k \in CategoryInputs, pg \in PageInputs }
    \cup
    { [sort_by |-> sId, category |-> None, skip |-> pg[1], limit |-> pg[2]] :
        pg \in BadPageInputs }

SortedInputs ==
    { [sort_type |-> t, category |-> None] : t \in SortTypeInputs }
    \cup
    { [sort_type |-> sPrice, category |-> k] : k \in CategoryInputs }

\* The caller has the answer: the worker is free again
Respond(c) ==
    /\ req[c].pc = "done"
    /\ req' = [req EXCEPT ![c] = Idle]
    /\ UNCHANGED <<products, id_seq, clock, started>>

NextCrud ==
    \/ \E c \in Clients : get_db_unavailable(c)
    \/ \E c \in Clients, product \in ProductInputs : create_product(c, product)
    \/ \E c \in Clients : create_product_insert(c)
    \/ \E c \in Clients, product_id \in IdInputs : get_product(c, product_id)
    \/ \E c \in Clients, product_id \in IdInputs, product \in ProductInputs :
          update_product(c, product_id, product)
    \/ \E c \in Clients : update_product_dupcheck(c)
    \/ \E c \in Clients : update_product_write(c)
    \/ \E c \in Clients, product_id \in IdInputs : delete_product(c, product_id)
    \/ \E c \in Clients : delete_product_write(c)
    \/ \E c \in Clients : Respond(c)

NextQuery ==
    \/ \E c \in Clients : get_db_unavailable(c)
    \/ \E c \in Clients, q \in ListInputs :
          get_products(c, q.sort_by, q.category, q.skip, q.limit)
    \/ \E c \in Clients, q \in SortedInputs :
          get_sorted_products(c, q.sort_type, q.category)
    \/ \E c \in Clients : Respond(c)

\* The list requests that run beside the writing handlers in SpecAll
AllListInputs ==
    { [sort_by |-> sPrice \o sDescSuffix, category |-> "x", skip |-> 0, limit |-> 2] }

AllSortedInputs ==
    { [sort_type |-> sCreated \o sDescSuffix, category |-> None] }

NextAll ==
    \/ NextCrud
    \/ \E c \in Clients, q \in AllListInputs :
          get_products(c, q.sort_by, q.category, q.skip, q.limit)
    \/ \E c \in Clients, q \in AllSortedInputs :
          get_sorted_products(c, q.sort_type, q.category)

\* The handlers that write, with GetById, under every interleaving
Spec == Init /\ [][NextCrud]_vars

\* The two list handlers
SpecQuery == InitQuery /\ [][NextQuery]_vars

\* The six handlers together
SpecAll == Init /\ [][NextAll]_vars

\* ------------------------------------------------------------------ claims
\* C1: in every reachable state of the store, under any interleaving of
\* concurrent Create and Update requests, no two present products have the
\* same name.
C1_UniqueNames ==
    \A a \in products, b \in products : a.name = b.name => a = b

\* C2: every product present in the store has price > 0: the price a Create
\* or an Update writes for a payload that passed validation is still
\* strictly greater than 0 after rounding to 2 fractional digits.
C2_PricePositive ==
    \A row \in products : row.price > 0

\* C3: Create with a name equal to the name of a product already present
\* fails with the duplicate-name conflict (status 400) and performs no
\* insertion: the rows after the request are the rows before it.
C3_DuplicateCreateRejected ==
    [][\A c \in Clients, product \in ProductInputs :
          ( /\ create_product(c, product)
            /\ BodyValid(product)
            /\ \E row \in products : row.name = product.name )
          => /\ req'[c].pc = "done"
             /\ req'[c].status = HTTP_400
             /\ products' = products]_vars

\* C4: a Create(p) with a valid p whose name is not in use succeeds, and a
\* GetById of the id it returned, with no write to that row in between,
\* succeeds and returns p's name, category and description, p's price rounded
\* to 2 decimals, and a created_at.
C4_CreateThenGet ==
    /\ \A c \in Clients :
          ( /\ req[c].op = "create_product" /\ req[c].pc = "done"
            /\ req[c].fault = "none" /\ req[c].statements = 2 )
          => req[c].status = HTTP_201
    /\ \A c \in Clients, g \in Clients :
          ( /\ req[c].op = "create_product" /\ req[c].status = HTTP_201
            /\ req[g].op = "get_product" /\ req[g].pc = "done"
            /\ req[g].fault = "none"
            /\ req[g].product_id = req[c].body[1].id
            /\ req[g].found # <<>>
            /\ req[g].found[1].xmin = req[c].txid )
          => /\ req[g].status = HTTP_200
             /\ req[g].body[1].name = req[c].sent.name
             /\ req[g].body[1].price = Round2(req[c].sent.price)
             /\ req[g].body[1].category = req[c].sent.category
             /\ req[g].body[1].description = req[c].sent.description
             /\ req[g].body[1].created_at >= 1

\* C5: for a present product and a valid payload p2 whose name no other
\* product holds, Update(id, p2) followed by GetById(id) returns p2's name,
\* price, category and description with the same id and the created_at the
\* product had before the update.
C5_UpdateThenGet ==
    \A u \in Clients, g \in Clients :
       ( /\ req[u].op = "update_product" /\ req[u].pc = "done"
         /\ req[u].fault = "none" /\ req[u].old # <<>>
         /\ req[g].op = "get_product" /\ req[g].pc = "done"
         /\ req[g].fault = "none"
         /\ req[g].product_id = req[u].product_id
         /\ req[g].found # <<>>
         /\ req[g].found[1].xmin = req[u].txid )
       => /\ req[g].status = HTTP_200
          /\ req[g].body[1].name = req[u].sent.name
          /\ req[g].body[1].price = Round2(req[u].sent.price)
          /\ req[g].body[1].category = req[u].sent.category
          /\ req[g].body[1].description = req[u].sent.description
          /\ req[g].body[1].id = req[u].product_id
          /\ req[g].body[1].created_at = req[u].old[1].created_at

\* C6: Update(id, payload), id >= 1, fails with not found (404) when no row
\* has that id; fails with duplicate name (400) exactly when a row with a different id
\* holds payload.name; and succeeds when the only row holding payload.name is
\* the row being updated.
C6_UpdateOutcomes ==
    [][\A c \in Clients :
          /\ \A product_id \in IdInputs, product \in ProductInputs :
                ( /\ product_id >= 1
                  /\ update_product(c, product_id, product)
                  /\ BodyValid(product)
                  /\ RowsById(product_id) = {} )
                => req'[c].status = HTTP_404
          /\ update_product_dupcheck(c) =>
                LET held == \E row \in RowsByName(req[c].product.name) :
                                row.id # req[c].product_id
                IN /\ held <=> req'[c].status = HTTP_400
                   /\ ~held => req'[c].pc = "update"
          /\ ( /\ update_product_write(c)
               /\ req'[c].fault = "none"
               /\ RowsById(req[c].product_id) # {} )
             => req'[c].status = HTTP_200]_vars

\* C7: after a successful Delete(id) the row is absent, and GetById(id) and
\* Delete(id) on an id with no row answer the caller with not found (404).
C7_DeletedIsNotFound ==
    [][\A c \in Clients :
          /\ (delete_product_write(c) /\ req'[c].status = HTTP_200)
             => \A row \in products' : row.id # req[c].product_id
          /\ \A product_id \in IdInputs :
                /\ ( /\ product_id >= 1
                     /\ get_product(c, product_id)
                     /\ req'[c].fault = "none"
                     /\ RowsById(product_id) = {} )
                   => req'[c].status = HTTP_404
                /\ ( /\ product_id >= 1
                     /\ delete_product(c, product_id)
                     /\ RowsById(product_id) = {} )
                   => req'[c].status = HTTP_404]_vars

\* C8: the status a handler raises for a domain failure is the status the
\* caller receives after the connection scope: 400 for validation and
\* conflict, 404 for not found; only other exceptions become 500.
C8_StatusReachesCaller ==
    \A c \in Clients :
       (req[c].pc = "done" /\ req[c].raised # 0) => req[c].status = req[c].raised

\* The ORDER BY fragments the code spells out: a field of the allow-list and
\* a direction
FixedClauses == {field \o dir : field \in ALLOWED_SORT_FIELDS, dir \in {sASC, sDESC}}

\* C9: for every caller-supplied sort string, the ORDER BY fragment of a
\* statement List or Sorted list sends to the store is one of the fixed
\* pairs (id, name, price, category, created_at) x (ASC, DESC); no statement
\* carries text of the caller in its ordering clause.
C9_OrderByFromAllowList ==
    \A c \in Clients :
       ( /\ req[c].op \in {"get_products", "get_sorted_products"}
         /\ (req[c].statements > 0 \/ req[c].order_by # <<>>) )
       => req[c].order_by \in FixedClauses

\* A token that is no fixed pair itself reached a statement as "price ASC"
C9_Witness ==
    \E c \in Clients :
       /\ req[c].op = "get_products"
       /\ req[c].sort = <<"p","r">> \o sDescSuffix \o <<"i","c","e">>
       /\ req[c].statements = 1
       /\ req[c].status = HTTP_200
       /\ req[c].order_by = sPrice \o sASC

\* The tokens C10 names: an allowed field, alone or with one direction suffix
CanonicalTokens ==
    ALLOWED_SORT_FIELDS
    \cup {field \o sAscSuffix : field \in ALLOWED_SORT_FIELDS}
    \cup {field \o sDescSuffix : field \in ALLOWED_SORT_FIELDS}

\* C10: List accepts a sort token only if it is an allowed field name
\* (whatever its case) optionally followed by a single direction suffix;
\* every other token is rejected with status 400 and no statement is
\* executed for that request.
C10_OnlyCanonicalTokens ==
    \A c \in Clients :
       ( /\ req[c].op = "get_products" /\ req[c].pc = "done"
         /\ PageValid(req[c].skip, req[c].limit)
         /\ Lower(req[c].sort) \notin CanonicalTokens )
       => (req[c].status = HTTP_400 /\ req[c].statements = 0)

\* The ten literals C11 names
SortTypeLiterals ==
    {sName, sPrice, sCategory, sId, sCreated}
    \cup {t \o sDescSuffix : t \in {sName, sPrice, sCategory, sId, sCreated}}

\* The ordering C11 gives a literal: its field (created is created_at),
\* descending for the _desc literal and ascending for the plain one
LiteralClause(t) ==
    LET desc  == EndsWith(t, sDescSuffix)
        plain == IF desc THEN SubSeq(t, 1, Len(t) - Len(sDescSuffix)) ELSE t
        field == IF plain = sCreated THEN sCreatedAt ELSE plain
    IN field \o (IF desc THEN sDESC ELSE sASC)

\* The rows of a sequence follow the clause
InOrder(rows, clause) ==
    \A i \in 1..Len(rows), j \in 1..Len(rows) :
       i < j => MayPrecede(rows[i], rows[j], clause)

\* C11: Sorted list accepts sort_type exactly when it is one of the ten
\* literals, then orders by the literal's field (created -> created_at),
\* ascending for the plain literal and descending for the _desc one; every
\* other value is answered 400 and no statement is executed.
C11_SortedListLiterals ==
    \A c \in Clients :
       ( /\ req[c].op = "get_sorted_products" /\ req[c].pc = "done"
         /\ req[c].fault = "none" )
       => IF req[c].sort \in SortTypeLiterals
          THEN /\ req[c].status = HTTP_200
               /\ req[c].statements = 1
               /\ req[c].order_by = LiteralClause(req[c].sort)
               /\ InOrder(req[c].body, LiteralClause(req[c].sort))
          ELSE /\ req[c].status = HTTP_400
               /\ req[c].statements = 0

\* C12: GetById, Update and Delete called with id < 1 are answered 400, no
\* statement is executed for the request, and the rows of the table are the
\* rows before it.
C12_InvalidIdRejected ==
    [][\A c \in Clients, product_id \in IdInputs :
          ( /\ product_id < 1
            /\ \/ get_product(c, product_id)
               \/ delete_product(c, product_id)
               \/ \E product \in ProductInputs :
                     BodyValid(product) /\ update_product(c, product_id, product) )
          => /\ req'[c].pc = "done"
             /\ req'[c].status = HTTP_400
             /\ req'[c].statements = 0
             /\ products' = products]_vars

\* The rows a request with this category filter matches
Matching(category) ==
    IF category \in {None, ""} THEN products
    ELSE {row \in products : row.category = category}

\* The length of the page at skip, limit over n rows
PageLen(n, skip, limit) ==
    IF n <= skip THEN 0 ELSE IF n - skip < limit THEN n - skip ELSE limit

\* Every answered page holds the rows at ranks skip+1 .. skip+limit of the
\* matching rows: the i-th row of the page has fewer than skip+i matching
\* rows strictly before it and at least skip+i before or level with it
PageAtRanks ==
    \A c \in Clients :
       ( /\ req[c].op = "get_products" /\ req[c].pc = "done"
         /\ req[c].status = HTTP_200 )
       => LET r    == req[c]
              rows == Matching(r.category)
          IN /\ Len(r.body) <= r.limit
             /\ Len(r.body) = PageLen(Cardinality(rows), r.skip, r.limit)
             /\ \A i \in 1..Len(r.body), j \in 1..Len(r.body) :
                   i # j => r.body[i] # r.body[j]
             /\ \A i \in 1..Len(r.body) :
                   /\ r.body[i] \in rows
                   /\ Cardinality({m \in rows : ~MayPrecede(r.body[i], m, r.order_by)})
                         < r.skip + i
                   /\ Cardinality({m \in rows : MayPrecede(m, r.body[i], r.order_by)})
                         >= r.skip + i

\* Two List requests with the same parameters on the same rows are answered
\* the same page (no request of SpecQuery writes, so the rows are the same)
PageDetermined ==
    \A c \in Clients, d \in Clients :
       ( /\ req[c].op = "get_products" /\ req[c].status = HTTP_200
         /\ req[d].op = "get_products" /\ req[d].status = HTTP_200
         /\ req[c].sort = req[d].sort /\ req[c].category = req[d].category
         /\ req[c].skip = req[d].skip /\ req[c].limit = req[d].limit )
       => req[c].body = req[d].body

\* C13: List returns at most limit products, exactly those at ranks skip+1 ..
\* skip+limit of the matching rows in the validated sort order, and when
\* rows tie on the sort field the page is still determined by the rows of
\* the table and the request alone.
C13_PageDeterminedByRanks == PageAtRanks /\ PageDetermined

\* The rows of a sequence, as a set
RowsOf(rows) == {rows[i] : i \in 1..Len(rows)}

\* C14: in List and Sorted list a non-empty category filter returns only
\* products whose category equals the filter, and every present product of
\* that category is eligible (Sorted list returns them all, List as many as
\* the page holds); with the filter absent or the empty string the products
\* of all categories are returned.
C14_CategoryFilter ==
    \A c \in Clients :
       ( /\ req[c].op \in {"get_products", "get_sorted_products"}
         /\ req[c].pc = "done" /\ req[c].status = HTTP_200 )
       => LET r == req[c]
              eligible == IF r.category = None \/ r.category = ""
                          THEN products
                          ELSE {row \in products : row.category = r.category}
          IN /\ RowsOf(r.body) \subseteq eligible
             /\ (r.category # None /\ r.category # "")
                   => \A i \in 1..Len(r.body) : r.body[i].category = r.category
             /\ IF r.op = "get_sorted_products"
                THEN RowsOf(r.body) = eligible
                ELSE Cardinality(RowsOf(r.body))
                        = PageLen(Cardinality(eligible), r.skip, r.limit)

\* Sorted list filtered on "x" returned the two products of category x, and
\* a List with the empty filter returned a product of category y with one
\* of category x
C14_Witness ==
    \E c \in Clients, d \in Clients :
       /\ req[c].op = "get_sorted_products" /\ req[c].status = HTTP_200
       /\ req[c].category = "x" /\ Len(req[c].body) = 2
       /\ req[d].op = "get_products" /\ req[d].status = HTTP_200
       /\ req[d].category = ""
       /\ {row.category : row \in RowsOf(req[d].body)} = {"x", "y"}

\* C15: for every sort token validate_sort_field accepts, in whatever case
\* it is written, the direction of the ordering is DESC exactly when the
\* token carries the descending suffix and ASC otherwise; so List with a
\* descending-suffixed price token and no category filter returns prices
\* that never increase.
C15_DirectionFollowsSuffix ==
    \A c \in Clients :
       ( /\ req[c].op = "get_products" /\ req[c].pc = "done"
         /\ req[c].order_by # <<>> )
       => LET r    == req[c]
              desc == EndsWith(Lower(r.sort), sDescSuffix)
          IN /\ OrderDescending(r.order_by) <=> desc
             /\ ( /\ desc /\ SortFieldOf(r.sort) = sPrice
                  /\ r.category = None /\ r.status = HTTP_200 )
                => \A i \in 1..Len(r.body), j \in 1..Len(r.body) :
                      i < j => r.body[i].price >= r.body[j].price

\* C16: whenever a Create, Update or Delete request answers the caller with
\* a failure (4xx or 5xx), the step that ends it leaves the committed rows
\* as they were and the request has committed nothing: a commit happens
\* only on the path that returns success.
C16_FailureLeavesStore ==
    [][\A c \in Clients :
          ( /\ req[c].pc # "done" /\ req'[c].pc = "done"
            /\ req'[c].op \in {"create_product", "update_product", "delete_product"}
            /\ req'[c].status >= HTTP_400 )
          => /\ products' = products
             /\ req'[c].commits = 0]_vars

\* C17: a request that opened a connection has closed it exactly once when
\* it completes, whether it succeeded, the handler raised a validation or
\* domain failure, or the store failed, and not before; a request whose
\* connection attempt fails is answered 503, opened nothing, closes nothing
\* and no handler ran for it.
C17_ConnectionClosedOnce ==
    \A c \in Clients :
       LET r == req[c] IN
       /\ r.opened \in {0, 1}
       /\ r.closed <= r.opened
       /\ (r.pc = "done" /\ r.opened = 1) => r.closed = 1
       /\ r.pc \notin {"done", "idle"} => (r.opened = 1 /\ r.closed = 0)
       /\ (r.pc = "done" /\ r.opened = 0) => r.fault = "connect"
       /\ r.fault = "connect"
            => /\ r.status = HTTP_503
               /\ r.opened = 0 /\ r.closed = 0
               /\ r.statements = 0 /\ r.commits = 0 /\ r.raised = 0

\* One request whose handler raised not found closed its connection once,
\* while one whose connection attempt failed was answered 503
C17_Witness ==
    \E c \in Clients, d \in Clients :
       /\ req[c].pc = "done" /\ req[c].raised = HTTP_404
       /\ req[c].opened = 1 /\ req[c].closed = 1
       /\ req[d].pc = "done" /\ req[d].fault = "connect"
       /\ req[d].status = HTTP_503 /\ req[d].opened = 0

\* C18: of the Delete requests for the same present id, under any
\* interleaving, at most one answers success (200); every other one answers
\* not found (404).
C18_OneDeleteSucceeds ==
    \A c \in Clients, d \in Clients :
       ( /\ c # d
         /\ req[c].op = "delete_product" /\ req[c].pc = "done"
         /\ req[d].op = "delete_product" /\ req[d].pc = "done"
         /\ req[c].fault = "none" /\ req[d].fault = "none"
         /\ req[c].product_id = req[d].product_id
         /\ req[c].status = HTTP_200 )
       => req[d].status = HTTP_404

\* C19: an Update(id, p) running beside a Delete(id), once it has executed
\* its write statement, answers either success with the fully updated
\* product or not found (404): never an internal error (500), and never
\* success when the product was absent as the write statement ran.
C19_UpdateBesideDelete ==
    \A u \in Clients :
       ( /\ req[u].op = "update_product" /\ req[u].pc = "done"
         /\ req[u].fault = "none" /\ req[u].statements = 3
         /\ \E d \in Clients :
               /\ req[d].op = "delete_product"
               /\ req[d].product_id = req[u].product_id )
       => LET r == req[u] IN
          /\ r.status \in {HTTP_200, HTTP_404}
          /\ r.old = <<>> => r.status = HTTP_404
          /\ r.status = HTTP_200
               => /\ r.old # <<>>
                  /\ Len(r.body) = 1
                  /\ r.body[1].id = r.product_id
                  /\ r.body[1].name = r.sent.name
                  /\ r.body[1].price = Round2(r.sent.price)
                  /\ r.body[1].category = r.sent.category
                  /\ r.body[1].description = r.sent.description

\* The row a step of a request is about: the row with the id of its path,
\* for Create the row the INSERT adds
Targets(r, row) ==
    IF r.op = "create_product" THEN row \notin products /\ row.id = id_seq
    ELSE row.id = r.product_id

\* C20: each request changes at most the row it targets.  A successful
\* Create adds exactly one row and leaves the existing rows as they are; a
\* successful Update changes only name, price, category and description of
\* the row with that id (its id and created_at stay); a successful Delete
\* removes only the row with that id; List, Sorted list and GetById never
\* change the rows.
C20_FrameEffects ==
    [][\A c \in Clients :
          (req'[c] # req[c] /\ req'[c].op \notin {"idle", "any"}) =>
          LET r == req'[c] IN
          /\ \A row \in (products \ products') \cup (products' \ products) :
                Targets(r, row)
          /\ (r.op = "create_product" /\ r.status = HTTP_201)
                => /\ products \subseteq products'
                   /\ Cardinality(products') = Cardinality(products) + 1
          /\ (r.op = "update_product" /\ r.status = HTTP_200)
                => /\ {row.id : row \in products'} = {row.id : row \in products}
                   /\ Cardinality(products') = Cardinality(products)
                   /\ \A old \in products, new \in products' :
                         old.id = new.id => old.created_at = new.created_at
          /\ (r.op = "delete_product" /\ r.status = HTTP_200)
                => /\ products' \subseteq products
                   /\ \A row \in products' : row.id # r.product_id
          /\ r.op \in {"get_product", "get_products", "get_sorted_products"}
                => products' = products]_vars

\* A Create added a row beside the row present, and an Update then rewrote
\* the row present, which kept its id and created_at
C20_Witness ==
    \E c \in Clients, u \in Clients :
       /\ req[c].op = "create_product" /\ req[c].status = HTTP_201
       /\ req[u].op = "update_product" /\ req[u].status = HTTP_200
       /\ req[u].old # <<>> /\ req[u].body[1].name = req[u].sent.name
       /\ req[u].body[1].id = req[u].old[1].id
       /\ req[u].body[1].created_at = req[u].old[1].created_at
       /\ products = {req[c].body[1], req[u].body[1]}
       /\ req[c].body[1] # req[u].body[1]

====
